---- MODULE Spec2Model ----
(***************************************************************************)
(* Model of the transcription job client of bili2text (src/xunfei.py):     *)
(* RequestApi (signed upload, bounded polling of /getResult) and its       *)
(* caller transcribe_audio_direct.  The remote service is the environment: *)
(* it answers a request in flight with any body of the shapes the client   *)
(* inspects, or does not answer at all.                                    *)
(***************************************************************************)
EXTENDS Integers, Sequences, FiniteSets, TLC

(* ---------------- bounds of the model ---------------- *)
\* time.time() at construction is one of 0..MaxStartTime
MaxStartTime == 1
\* seconds the upload round trip may take, 0..MaxLatency
MaxLatency == 1

(* ---------------- state ---------------- *)
VARIABLES
    pc,           \* position of the one transcribe_audio_direct call
    now,          \* int(time.time())
    fileExists,   \* os.path.exists(audio_path)
    outFile,      \* content of outputs/<output_name>.txt, Absent if no file
    api,          \* the RequestApi object: appid, secret_key, ts, signa
    inflight,     \* the requests.post call the client is blocked in, if any
    response,     \* the answer requests.post returned, until it is handled
    uploadresp,   \* local of get_result
    orderId,      \* local of get_result
    param_dict,   \* local of get_result
    retry_count,  \* local of get_result
    fail_type,    \* local of get_result
    ret,          \* value get_result returned
    exitLine,     \* source line of the return statement get_result took
    outLine,      \* source line transcribe_audio_direct returned at
    out,          \* value transcribe_audio_direct returned
    console,      \* messages printed
    sent,         \* history: every request sent
    uploadsSent,  \* history: number of /upload requests sent
    pollsSent,    \* history: number of /getResult requests sent
    pollHistory   \* history: what the poll responses so far were

vars == <<pc, now, fileExists, outFile, api, inflight, response, uploadresp,
          orderId, param_dict, retry_count, fail_type, ret, exitLine, outLine,
          out, console, sent, uploadsSent, pollsSent, pollHistory>>

\* state of one download_audio_only call (src/utils.py)
VARIABLES
    dpc,          \* position of the call
    dArg,         \* the bv_number the caller passed
    bv_number,    \* local of download_audio_only, after normalization
    nativeBv,     \* bv_number inside download_audio_native
    output_dir,   \* the identifier whose directory bilibili_video/<id> is used
    dir,          \* the files in that directory
    page,         \* what the page request of download_audio_native gave
    audio_path,   \* local of download_audio_native: the file being written
    nativeRet,    \* value download_audio_native returned
    ytExit,       \* how the yt-dlp subprocess ended
    ytRet,        \* value download_audio_with_ytdlp returned
    dlRet,        \* value download_audio_only returned
    calls,        \* history: the providers invoked, in order
    running,      \* history: the providers running right now
    reasons       \* history: the failure each provider printed

dlVars == <<dpc, dArg, bv_number, nativeBv, output_dir, dir, page, audio_path,
            nativeRet, ytExit, ytRet, dlRet, calls, running, reasons>>


\* state of one extract_text call and of what transcribe_audio_direct does
\* with its result (src/xunfei.py)
VARIABLES
    xpc,        \* where the call is
    xResult,    \* the dict get_result returned
    raw_text,   \* what extract_text returned
    xTail       \* what transcribe_audio_direct did after it

exVars == <<xpc, xResult, raw_text, xTail>>

\* state of one format_for_wechat call and of a second call on its output
\* (src/xunfei.py)
VARIABLES
    fpc,      \* where the calls are
    fText,    \* the text passed to the first call
    fMode,    \* the local is_english of the first call
    fOut,     \* what the first call returned
    fOut2     \* what the call on fOut returned

fmVars == <<fpc, fText, fMode, fOut, fOut2>>

\* state of the webhook server (src/server.py)
VARIABLES
    VERIFICATION_TOKEN,   \* os.getenv('FEISHU_VERIFICATION_TOKEN', '')
    processed_messages,   \* the module-level set of message ids
    handler,              \* per request thread: position and locals of
                          \* feishu_webhook
    started,              \* per message id: process_video threads started
    delivered             \* requests received so far

svVars == <<VERIFICATION_TOKEN, processed_messages, handler, started,
            delivered>>

VARIABLES
    worker,     \* position and locals of each process_video thread
    folder,     \* the audio file of bilibili_video/<BV>/, per identifier
    outputs     \* outputs/<title>.txt, per identifier (its title)

pvVars == <<worker, folder, outputs>>

allVars == <<vars, dlVars, exVars, fmVars, svVars, pvVars>>
\* the variables of the components other than the one that moves
othersOfJob == <<dlVars, exVars, fmVars, svVars, pvVars>>
othersOfDl == <<vars, exVars, fmVars, svVars, pvVars>>
othersOfEx == <<vars, dlVars, fmVars, svVars, pvVars>>
othersOfFm == <<vars, dlVars, exVars, svVars, pvVars>>
othersOfSv == <<vars, dlVars, exVars, fmVars, pvVars>>
othersOfPv == <<vars, dlVars, exVars, fmVars, svVars>>

(* ---------------- program constants ---------------- *)
max_retries == 60
\* time.sleep(5) between two polls
PollDelay == 5
\* default of order_info.get('status', 3) and the value compared with
StatusProcessing == 3
\* default of order_info.get('failType', 0)
FailTypeDefault == 0

XUNFEI_APPID == "appid"
XUNFEI_SECRET_KEY == "secret"

(* ---------------- JSON values ---------------- *)
\* An optional field of a JSON object is a sequence of length 0 (key
\* absent) or 1 (key present with that value).
Absent == <<>>
Some(v) == <<v>>
Has(opt) == opt # <<>>
\* dict.get(key, default)
Get(opt, default) == IF opt = <<>> THEN default ELSE opt[1]

\* A text is a sequence of characters; a character is a one-token string.
\* A str holding JSON is the record of what json.loads makes of it:
\* kind "empty" is the str '', "garbage" a non-empty str json.loads rejects,
\* "json" a str that decodes to an object with the fields given, "list" a
\* str that decodes to an array.
EmptyStr == [kind |-> "empty", lattice |-> Absent]
GarbageStr == [kind |-> "garbage", lattice |-> Absent]
ListStr == [kind |-> "list", lattice |-> Absent]
JsonStr(latticeOpt) == [kind |-> "json", lattice |-> latticeOpt]
\* the str '{}', default of .get('orderResult', '{}')
EmptyObjStr == JsonStr(Absent)

Garbage1Best == [kind |-> "garbage", st |-> Absent]
List1Best == [kind |-> "list", st |-> Absent]
Empty1Best == [kind |-> "empty", st |-> Absent]
Json1Best(stOpt) == [kind |-> "json", st |-> stOpt]
EmptyObj1Best == Json1Best(Absent)

Cw(text) == [w |-> Some(text)]
Ws(cws) == [cw |-> Some(cws)]
Rt(wss) == [ws |-> Some(wss)]
St(rts) == [rt |-> Some(rts)]
Lattice(best) == [json_1best |-> Some(best)]

\* one lattice, one unit, the words "ab", "." in two word-segments
DocWords ==
    JsonStr(Some(<<Lattice(Json1Best(Some(St(<<Rt(<<Ws(<<Cw(<<"a", "b">>)>>),
                                                   Ws(<<Cw(<<".">>)>>)>>)>>))))>>))
\* decodes, and holds a lattice whose json_1best does not decode
DocBadLattice == JsonStr(Some(<<Lattice(Garbage1Best)>>))
\* the non-empty orderResult values the service is taken to send
Payloads == {GarbageStr, DocWords}
\* Python truthiness of a str
Truthy(s) == s.kind # "empty"

\* code of the upload response: the str '000000', the int 0, or an error
\* code
CodeStr000000 == "str:000000"
CodeInt0 == "int:0"
UploadCodes == {CodeStr000000, CodeInt0, "str:26601"}
OrderIds == {"ORD1", "ORD2"}

UploadContents == [orderId : {Absent} \cup {Some(o) : o \in OrderIds}]
\* raises: requests.post or json.loads raised instead of giving a dict
UploadBodies ==
    [raises : {FALSE},
     code : {Absent} \cup {Some(c) : c \in UploadCodes},
     content : {Absent} \cup {Some(c) : c \in UploadContents}]
UploadRaise == [raises |-> TRUE, code |-> Absent, content |-> Absent]
UploadResponses == UploadBodies \cup {UploadRaise}

Statuses == {StatusProcessing, -1}
FailTypes == {11}
OrderInfos ==
    [status : {Absent} \cup {Some(s) : s \in Statuses},
     failType : {Absent} \cup {Some(f) : f \in FailTypes}]
PollContents ==
    [orderResult : {Absent, Some(EmptyStr)} \cup {Some(p) : p \in Payloads},
     orderInfo : {Absent} \cup {Some(i) : i \in OrderInfos}]
PollBodies ==
    [raises : {FALSE},
     content : {Absent} \cup {Some(c) : c \in PollContents}]
PollRaise == [raises |-> TRUE, content |-> Absent]
PollResponses == PollBodies \cup {PollRaise}

NoResponse == [raises |-> FALSE, content |-> Absent]

(* ---------------- RequestApi ---------------- *)
\* hashlib.md5(...).hexdigest(), hmac.new(key, msg, sha1).digest() and
\* base64.b64encode as injective symbolic terms
Md5Hex(s) == [alg |-> "md5hex", key |-> "", of |-> <<s>>]
HmacSha1(k, m) == [alg |-> "hmac-sha1", key |-> k, of |-> <<m>>]
B64(b) == [alg |-> "base64", key |-> "", of |-> <<b>>]

\* variant: the appid is the key and the secret is hashed
_get_signa_KeySwapped(appid, secret_key, ts_) ==
    B64(HmacSha1(appid, Md5Hex(secret_key \o ts_)))

\* base64(hmac_sha1(secret_key, md5(appid + ts).hexdigest()))
_get_signa(appid, secret_key, ts_) ==
    B64(HmacSha1(secret_key, Md5Hex(appid \o ts_)))

NoSigna == [alg |-> "none", key |-> "", of |-> <<>>]


\* param_dict of upload, as far as the service identifies the job by it
UploadParams(self) ==
    [endpoint |-> "/upload", appId |-> self.appid, signa |-> self.signa,
     ts |-> self.ts, orderId |-> Absent]

\* requests.post(url=..., headers=..., data=data) of upload: no timeout
\* argument, so the call waits for the response without limit
UploadPost(params) == [params |-> params, timeout |-> Absent]

\* the success test of upload: it only prints, the response is returned
\* to get_result either way
UploadCodeOk(result) ==
    ~ (result.code # Some(CodeStr000000) /\ result.code # Some(CodeInt0))

EmptyUploadContent == [orderId |-> Absent]

\* variant: only the content block is tested, the orderId is read with
\* .get('orderId')
UploadOutcome_GetOrderId(uploadresp_) ==
    IF ~Has(uploadresp_.content)
    THEN [ok |-> FALSE, orderId |-> Absent]
    ELSE [ok |-> TRUE, orderId |-> uploadresp_.content[1].orderId]

\* variant: the upload response is not tested before the loop
UploadOutcome_Untested(uploadresp_) ==
    [ok |-> TRUE,
     orderId |-> IF Has(uploadresp_.content)
                 THEN uploadresp_.content[1].orderId ELSE Absent]

\* get_result's test of the upload response and the orderId it takes
UploadOutcome(uploadresp_) ==
    IF ~Has(uploadresp_.content)
       \/ ~Has(Get(uploadresp_.content, EmptyUploadContent).orderId)
    THEN [ok |-> FALSE, orderId |-> Absent]
    ELSE [ok |-> TRUE, orderId |-> Some(uploadresp_.content[1].orderId[1])]

\* variant: the orderId key is left out of param_dict
PollParams_NoOrderId(self, order_id) ==
    [endpoint |-> "/getResult", appId |-> self.appid, signa |-> self.signa,
     ts |-> self.ts, orderId |-> Absent]

\* variant: the polls are signed afresh with the current time
PollParams_FreshTs(self, order_id) ==
    [endpoint |-> "/getResult", appId |-> self.appid,
     signa |-> _get_signa(self.appid, self.secret_key, ToString(now)),
     ts |-> ToString(now), orderId |-> order_id]

\* param_dict of the polls, built once before the loop
PollParams(self, order_id) ==
    [endpoint |-> "/getResult", appId |-> self.appid, signa |-> self.signa,
     ts |-> self.ts, orderId |-> order_id]

\* requests.post(url=..., headers=...) of the loop: no timeout argument
PollPost(params) == [params |-> params, timeout |-> Absent]

\* variant: one iteration too many
LoopContinues_OffByOne(n) == n <= max_retries

\* the loop condition
LoopContinues(n) == n < max_retries

EmptyPollContent == [orderResult |-> Absent, orderInfo |-> Absent]
EmptyOrderInfo == [status |-> Absent, failType |-> Absent]

OrderResultOf(result) ==
    Get(Get(result.content, EmptyPollContent).orderResult, EmptyStr)
OrderInfoOf(result) ==
    Get(Get(result.content, EmptyPollContent).orderInfo, EmptyOrderInfo)
StatusOf(result) == Get(OrderInfoOf(result).status, StatusProcessing)
FailTypeOf(result) == Get(OrderInfoOf(result).failType, FailTypeDefault)

\* variant: the status is inspected before the result payload
PollBranch_StatusFirst(result) ==
    IF ~Has(result.content) THEN "no_content"
    ELSE IF StatusOf(result) # StatusProcessing THEN "failed"
    ELSE IF Truthy(OrderResultOf(result)) THEN "result"
    ELSE "processing"

\* which branch of the loop body a decoded poll response takes
PollBranch(result) ==
    IF ~Has(result.content) THEN "no_content"
    ELSE IF Truthy(OrderResultOf(result)) THEN "result"
    ELSE IF StatusOf(result) = StatusProcessing THEN "processing"
    ELSE "failed"

\* variant: the hiccup is retried without counting it
RetryAfterNoContent_NotCounted(n) == n

\* retry_count after the 'content' not in result branch
RetryAfterNoContent(n) == n + 1
\* retry_count after the status == 3 branch
RetryAfterProcessing(n) == n + 1

(* ---------------- extract_text ---------------- *)
\* the w of every cw of one ws, in order
RECURSIVE CwTexts(_)
CwTexts(cws) ==
    IF cws = <<>> THEN <<>>
    ELSE Get(Head(cws).w, <<>>) \o CwTexts(Tail(cws))

\* ''.join([cw.get('w','') for ws in rt.get('ws',[]) for cw in ws.get('cw',[])])
RECURSIVE WsTexts(_)
WsTexts(wss) ==
    IF wss = <<>> THEN <<>>
    ELSE CwTexts(Get(Head(wss).cw, <<>>)) \o WsTexts(Tail(wss))
RtSentence(rt) == WsTexts(Get(rt.ws, <<>>))

\* the sentences of the units of one lattice, joined
RECURSIVE RtTexts(_)
RtTexts(rts) ==
    IF rts = <<>> THEN <<>>
    ELSE RtSentence(Head(rts)) \o RtTexts(Tail(rts))

EmptySt == [rt |-> Absent]
BestOf(lattice) == Get(lattice.json_1best, EmptyObj1Best)
LatticeText(lattice) ==
    RtTexts(Get(Get(BestOf(lattice).st, EmptySt).rt, <<>>))

\* ''.join(sentences) over the lattices in order
RECURSIVE LatticeTexts(_)
LatticeTexts(ls) ==
    IF ls = <<>> THEN <<>>
    ELSE LatticeText(Head(ls)) \o LatticeTexts(Tail(ls))

\* variant: only the decoding of orderResult is guarded
ExtractRaises_OuterOnly(order_result_str) ==
    order_result_str.kind \in {"garbage", "list"}

\* something in extract_text raises: json.loads of a str that is no JSON
\* (the empty str included), or .get on a decoded value that is a list
ExtractRaises(order_result_str) ==
    \/ order_result_str.kind \in {"garbage", "list"}
    \/ \E i \in 1..Len(Get(order_result_str.lattice, <<>>)) :
          BestOf(order_result_str.lattice[1][i]).kind
              \in {"garbage", "list", "empty"}

extract_text(result) ==
    LET order_result_str ==
            Get(Get(result.content, EmptyPollContent).orderResult, EmptyObjStr)
    IN  IF ~Truthy(order_result_str) THEN <<>>
        ELSE IF ExtractRaises(order_result_str) THEN <<>>
        ELSE LatticeTexts(Get(order_result_str.lattice, <<>>))

(* ---------------- format_for_wechat ---------------- *)
SP == " "
NL == "\n"
TAB == "\t"
\* characters c with c.isalpha() and ord(c) < 128
AsciiLetters == {"a", "b", "c"}
\* characters the regular expression \s and str.strip() take as whitespace
Whitespace == {SP, NL, TAB}
\* a CJK letter and the full-width full stop, exclamation and question mark
ZH == "zh"
ZhStop == "zh."
ZhExcl == "zh!"
ZhQuest == "zh?"

Max(a, b) == IF a >= b THEN a ELSE b

RECURSIVE CountIn(_, _)
CountIn(t, S) ==
    IF t = <<>> THEN 0
    ELSE (IF Head(t) \in S THEN 1 ELSE 0) + CountIn(Tail(t), S)

\* variant: a ratio of one half counts as English
is_english_AtLeastHalf(text) ==
    LET alpha_count == CountIn(text, AsciiLetters)
        total_chars == Len(text) - CountIn(text, {SP})
    IN  2 * alpha_count >= Max(total_chars, 1)

\* alpha_count / max(total_chars, 1) > 0.5, total_chars counting every
\* character but ' '
is_english(text) ==
    LET alpha_count == CountIn(text, AsciiLetters)
        total_chars == Len(text) - CountIn(text, {SP})
    IN  2 * alpha_count > Max(total_chars, 1)

RECURSIVE LStrip(_)
LStrip(t) ==
    IF t # <<>> /\ Head(t) \in Whitespace THEN LStrip(Tail(t)) ELSE t
RECURSIVE RStrip(_)
RStrip(t) ==
    IF t # <<>> /\ t[Len(t)] \in Whitespace
    THEN RStrip(SubSeq(t, 1, Len(t) - 1)) ELSE t
\* str.strip()
Strip(t) == RStrip(LStrip(t))

\* re.sub(r'\s+', rep, text)
RECURSIVE SubWsRuns(_, _)
SubWsRuns(t, rep) ==
    IF t = <<>> THEN <<>>
    ELSE IF Head(t) \in Whitespace THEN rep \o SubWsRuns(LStrip(Tail(t)), rep)
    ELSE <<Head(t)>> \o SubWsRuns(Tail(t), rep)

\* re.sub(r'([.!?])\s*', r'\1\n', text)
RECURSIVE BreakEnglish(_)
BreakEnglish(t) ==
    IF t = <<>> THEN <<>>
    ELSE IF Head(t) \in {".", "!", "?"}
    THEN <<Head(t), NL>> \o BreakEnglish(LStrip(Tail(t)))
    ELSE <<Head(t)>> \o BreakEnglish(Tail(t))

\* variant: a line break after the full stop only
RECURSIVE BreakChinese_StopOnly(_)
BreakChinese_StopOnly(t) ==
    IF t = <<>> THEN <<>>
    ELSE IF Head(t) = ZhStop
    THEN <<Head(t), NL>> \o BreakChinese_StopOnly(Tail(t))
    ELSE <<Head(t)>> \o BreakChinese_StopOnly(Tail(t))

\* re.sub(r'([。！？])', r'\1\n', text)
RECURSIVE BreakChinese(_)
BreakChinese(t) ==
    IF t = <<>> THEN <<>>
    ELSE IF Head(t) \in {ZhStop, ZhExcl, ZhQuest}
    THEN <<Head(t), NL>> \o BreakChinese(Tail(t))
    ELSE <<Head(t)>> \o BreakChinese(Tail(t))

\* text.split('\n')
RECURSIVE SplitNL(_)
SplitNL(t) ==
    IF \A i \in 1..Len(t) : t[i] # NL THEN <<t>>
    ELSE LET i == CHOOSE j \in 1..Len(t) :
                    t[j] = NL /\ \A k \in 1..(j - 1) : t[k] # NL
         IN  <<SubSeq(t, 1, i - 1)>> \o SplitNL(SubSeq(t, i + 1, Len(t)))

\* [line.strip() for line in text.split('\n') if line.strip()]
RECURSIVE StripNonEmpty(_)
StripNonEmpty(ls) ==
    IF ls = <<>> THEN <<>>
    ELSE IF Strip(Head(ls)) # <<>>
    THEN <<Strip(Head(ls))>> \o StripNonEmpty(Tail(ls))
    ELSE StripNonEmpty(Tail(ls))
SentenceLines(t) == StripNonEmpty(SplitNL(t))

\* sep.join(parts)
RECURSIVE Join(_, _)
Join(parts, sep) ==
    IF parts = <<>> THEN <<>>
    ELSE IF Len(parts) = 1 THEN parts[1]
    ELSE parts[1] \o sep \o Join(Tail(parts), sep)

\* the grouping loop: paragraphs of at most limit lines, closed early by a
\* line that ends with a character of strong
RECURSIVE GroupLines(_, _, _, _, _, _)
GroupLines(lines, paragraph, formatted, limit, strong, sep) ==
    IF lines = <<>>
    THEN IF paragraph # <<>> THEN Append(formatted, Join(paragraph, sep))
         ELSE formatted
    ELSE LET line == Head(lines)
             p == Append(paragraph, line)
         IN  IF Len(p) >= limit \/ line[Len(line)] \in strong
             THEN GroupLines(Tail(lines), <<>>, Append(formatted, Join(p, sep)),
                             limit, strong, sep)
             ELSE GroupLines(Tail(lines), p, formatted, limit, strong, sep)

\* len(paragraph) >= 3
EnglishLimit == 3
\* len(paragraph) >= 2
ChineseLimit == 2

\* variant: English paragraphs of four sentences
Paragraphs_EnglishFour(text) ==
    IF is_english(text)
    THEN GroupLines(SentenceLines(BreakEnglish(Strip(SubWsRuns(text, <<SP>>)))),
                    <<>>, <<>>, 4, {"?", "!"}, <<SP>>)
    ELSE GroupLines(SentenceLines(BreakChinese(SubWsRuns(text, <<>>))),
                    <<>>, <<>>, ChineseLimit, {ZhQuest, ZhExcl}, <<>>)

\* the paragraphs format_for_wechat joins with a blank line
Paragraphs(text) ==
    IF is_english(text)
    THEN GroupLines(SentenceLines(BreakEnglish(Strip(SubWsRuns(text, <<SP>>)))),
                    <<>>, <<>>, EnglishLimit, {"?", "!"}, <<SP>>)
    ELSE GroupLines(SentenceLines(BreakChinese(SubWsRuns(text, <<>>))),
                    <<>>, <<>>, ChineseLimit, {ZhQuest, ZhExcl}, <<>>)

format_for_wechat(text) ==
    IF text = <<>> THEN <<>> ELSE Join(Paragraphs(text), <<NL, NL>>)

(* ---------------- initial values ---------------- *)
NoApi == [appid |-> "", secret_key |-> "", ts |-> "", signa |-> NoSigna]
NoRequest == [endpoint |-> "", appId |-> "", signa |-> NoSigna, ts |-> "",
              orderId |-> Absent]
NoUploadResp == [raises |-> FALSE, code |-> Absent, content |-> Absent]
RetUnset == [kind |-> "unset", body |-> NoResponse]
RetNone == [kind |-> "None", body |-> NoResponse]
RetDict(result) == [kind |-> "dict", body |-> result]

OutUnset == "unset"
OutNone == "None"
output_path == "outputs/name.txt"
OldText == <<"c">>

\* a poll response of the kind 'status 3, nothing transcribed yet'
IsProcessingResponse(r) ==
    /\ ~r.raises
    /\ Has(r.content)
    /\ ~Truthy(OrderResultOf(r))
    /\ Has(r.content[1].orderInfo)
    /\ r.content[1].orderInfo[1].status = Some(StatusProcessing)

\* "none" before the first poll response, then "status3" while every
\* response was of that kind, "no_content" while every response lacked the
\* content block, "mixed" otherwise
PollClass(r) ==
    IF IsProcessingResponse(r) THEN "status3"
    ELSE IF ~r.raises /\ ~Has(r.content) THEN "no_content"
    ELSE "mixed"
HistoryAfter(h, r) ==
    IF h = "none" \/ h = PollClass(r) THEN PollClass(r) ELSE "mixed"

Init ==
    /\ pc = "t_entry"
    /\ now \in 0..MaxStartTime
    /\ fileExists \in BOOLEAN
    /\ outFile \in {Absent, Some(OldText)}
    /\ api = NoApi
    /\ inflight = Absent
    /\ response = NoUploadResp
    /\ uploadresp = NoUploadResp
    /\ orderId = Absent
    /\ param_dict = NoRequest
    /\ retry_count = 0
    /\ fail_type = Absent
    /\ ret = RetUnset
    /\ exitLine = 0
    /\ outLine = 0
    /\ out = OutUnset
    /\ console = {}
    /\ sent = {}
    /\ uploadsSent = 0
    /\ pollsSent = 0
    /\ pollHistory = "none"

(* ---------------- transcribe_audio_direct, entry ---------------- *)
\* if not os.path.exists(audio_path): return None
TranscribeEnter ==
    /\ pc = "t_entry"
    /\ IF ~fileExists
       THEN /\ pc' = "t_done"
            /\ out' = OutNone
            /\ outLine' = 256
            /\ console' = console \cup {"no_audio_file"}
       ELSE /\ pc' = "construct"
            /\ UNCHANGED <<out, outLine, console>>
    /\ UNCHANGED <<now, fileExists, outFile, api, inflight, response,
                   uploadresp, orderId, param_dict, retry_count, fail_type,
                   ret, exitLine, sent, uploadsSent, pollsSent, pollHistory>>

\* RequestApi.__init__
Construct ==
    /\ pc = "construct"
    /\ api' = [appid |-> XUNFEI_APPID, secret_key |-> XUNFEI_SECRET_KEY,
               ts |-> ToString(now),
               signa |-> _get_signa(XUNFEI_APPID, XUNFEI_SECRET_KEY,
                                    ToString(now))]
    /\ pc' = "upload"
    /\ UNCHANGED <<now, fileExists, outFile, inflight, response, uploadresp,
                   orderId, param_dict, retry_count, fail_type, ret, exitLine,
                   outLine, out, console, sent, uploadsSent, pollsSent,
                   pollHistory>>

(* ---------------- RequestApi.upload ---------------- *)
\* up to requests.post, which is called without a timeout argument
UploadSend ==
    /\ pc = "upload"
    /\ inflight' = Some(UploadPost(UploadParams(api)))
    /\ sent' = sent \cup {UploadParams(api)}
    /\ uploadsSent' = uploadsSent + 1
    /\ pc' = "upload_wait"
    /\ UNCHANGED <<now, fileExists, outFile, api, response, uploadresp,
                   orderId, param_dict, retry_count, fail_type, ret, exitLine,
                   outLine, out, console, pollsSent, pollHistory>>

\* the service answers the upload (or the connection fails)
RemoteAnswerUpload ==
    /\ pc = "upload_wait"
    /\ \E r \in UploadResponses, d \in 0..MaxLatency :
          /\ response' = r
          /\ now' = now + d
    /\ inflight' = Absent
    /\ pc' = "upload_got"
    /\ UNCHANGED <<fileExists, outFile, api, uploadresp, orderId, param_dict,
                   retry_count, fail_type, ret, exitLine, outLine, out,
                   console, sent, uploadsSent, pollsSent, pollHistory>>

\* the rest of upload, and get_result up to the loop
UploadReturn ==
    /\ pc = "upload_got"
    /\ IF response.raises
       THEN \* caught by the except of transcribe_audio_direct
            /\ pc' = "t_done"
            /\ out' = OutNone
            /\ outLine' = 300
            /\ console' = console \cup {"exception"}
            /\ UNCHANGED <<uploadresp, orderId, param_dict, retry_count, ret,
                           exitLine>>
       ELSE /\ uploadresp' = response
            /\ UNCHANGED <<out, outLine>>
            /\ IF UploadOutcome(response).ok
               THEN /\ orderId' = UploadOutcome(response).orderId
                    /\ param_dict' =
                           PollParams(api, UploadOutcome(response).orderId)
                    /\ retry_count' = 0
                    /\ pc' = "loop"
                    /\ console' = console \cup
                           (IF UploadCodeOk(response) THEN {}
                            ELSE {"upload_failed_88"})
                    /\ UNCHANGED <<ret, exitLine>>
               ELSE /\ ret' = RetNone
                    /\ exitLine' = 98
                    /\ pc' = "gr_returned"
                    /\ console' = console \cup {"upload_failed_97"} \cup
                           (IF UploadCodeOk(response) THEN {}
                            ELSE {"upload_failed_88"})
                    /\ UNCHANGED <<orderId, param_dict, retry_count>>
    /\ response' = NoUploadResp
    /\ UNCHANGED <<now, fileExists, outFile, api, inflight, fail_type, sent,
                   uploadsSent, pollsSent, pollHistory>>

(* ---------------- RequestApi.get_result, the loop ---------------- *)
\* while retry_count < max_retries: ... requests.post, without a timeout
PollSend ==
    /\ pc = "loop"
    /\ LoopContinues(retry_count)
    /\ inflight' = Some(PollPost(param_dict))
    /\ sent' = sent \cup {param_dict}
    /\ pollsSent' = pollsSent + 1
    /\ pc' = "poll_wait"
    /\ UNCHANGED <<now, fileExists, outFile, api, response, uploadresp,
                   orderId, param_dict, retry_count, fail_type, ret, exitLine,
                   outLine, out, console, uploadsSent, pollHistory>>

\* the loop condition fails: spinner.done("等待超时"); return None
LoopExit ==
    /\ pc = "loop"
    /\ ~LoopContinues(retry_count)
    /\ ret' = RetNone
    /\ exitLine' = 152
    /\ console' = console \cup {"wait_timeout"}
    /\ pc' = "gr_returned"
    /\ UNCHANGED <<now, fileExists, outFile, api, inflight, response,
                   uploadresp, orderId, param_dict, retry_count, fail_type,
                   outLine, out, sent, uploadsSent, pollsSent, pollHistory>>

\* the service answers the poll (or the connection fails)
RemoteAnswerPoll ==
    /\ pc = "poll_wait"
    /\ \E r \in PollResponses :
          /\ response' = [raises |-> r.raises, code |-> Absent,
                          content |-> r.content]
          /\ pollHistory' = HistoryAfter(pollHistory, r)
    /\ inflight' = Absent
    /\ pc' = "poll_got"
    /\ UNCHANGED <<now, fileExists, outFile, api, uploadresp, orderId,
                   param_dict, retry_count, fail_type, ret, exitLine, outLine,
                   out, console, sent, uploadsSent, pollsSent>>

\* the response as the dict json.loads gives
ResultOf(resp) == [raises |-> resp.raises, content |-> resp.content]

\* the loop body after requests.post
PollHandle ==
    /\ pc = "poll_got"
    /\ LET result == ResultOf(response)
           branch == PollBranch(result)
       IN  IF response.raises
           THEN \* caught by the except of transcribe_audio_direct
                /\ pc' = "t_done"
                /\ out' = OutNone
                /\ outLine' = 300
                /\ console' = console \cup {"exception"}
                /\ UNCHANGED <<now, retry_count, fail_type, ret, exitLine>>
           ELSE /\ UNCHANGED <<out, outLine>>
                /\ CASE branch = "no_content" ->
                          /\ now' = now + PollDelay
                          /\ retry_count' = RetryAfterNoContent(retry_count)
                          /\ pc' = "loop"
                          /\ UNCHANGED <<fail_type, ret, exitLine, console>>
                     [] branch = "result" ->
                          /\ ret' = RetDict(result)
                          /\ exitLine' = 135
                          /\ console' = console \cup {"done"}
                          /\ pc' = "gr_returned"
                          /\ UNCHANGED <<now, retry_count, fail_type>>
                     [] branch = "processing" ->
                          /\ now' = now + PollDelay
                          /\ retry_count' = RetryAfterProcessing(retry_count)
                          /\ pc' = "loop"
                          /\ UNCHANGED <<fail_type, ret, exitLine, console>>
                     [] branch = "failed" ->
                          /\ fail_type' = Some(FailTypeOf(result))
                          /\ ret' = RetNone
                          /\ exitLine' = 149
                          /\ console' = console \cup {"failed_status"}
                          /\ pc' = "gr_returned"
                          /\ UNCHANGED <<now, retry_count>>
    /\ response' = NoUploadResp
    /\ UNCHANGED <<fileExists, outFile, api, inflight, uploadresp, orderId,
                   param_dict, sent, uploadsSent, pollsSent, pollHistory>>

(* ---------------- transcribe_audio_direct, after get_result ---------------- *)
\* variant: a failed job is submitted again
TranscribeTail_Resubmit(result) ==
    IF result.kind # "dict"
    THEN [out |-> OutNone, write |-> Absent, line |-> 276, next |-> "upload"]
    ELSE IF extract_text(result.body) = <<>>
    THEN [out |-> OutNone, write |-> Absent, line |-> 282, next |-> "upload"]
    ELSE [out |-> output_path,
          write |-> Some(format_for_wechat(extract_text(result.body))),
          line |-> 294, next |-> "t_done"]

\* what follows result = api.get_result(): the value returned, the file
\* written, the return statement taken and where control goes (every path
\* leaves the function)
TranscribeTail(result) ==
    IF result.kind # "dict"
    THEN [out |-> OutNone, write |-> Absent, line |-> 276, next |-> "t_done"]
    ELSE IF extract_text(result.body) = <<>>
    THEN [out |-> OutNone, write |-> Absent, line |-> 282, next |-> "t_done"]
    ELSE [out |-> output_path,
          write |-> Some(format_for_wechat(extract_text(result.body))),
          line |-> 294, next |-> "t_done"]

\* open(output_path, 'w', encoding='utf-8') leaves the file empty
Truncated == <<>>

\* the return of transcribe_audio_direct; with open(...) as f: f.write(...)
\* truncates the file and then writes, and the write can raise (a lone
\* surrogate utf-8 cannot encode, a full disk), which the except turns
\* into None at line 300
TranscribeReturn ==
    /\ pc = "gr_returned"
    /\ LET t == TranscribeTail(ret)
       IN  \E write_raises \in (IF Has(t.write) THEN BOOLEAN ELSE {FALSE}) :
              IF write_raises
              THEN /\ out' = OutNone
                   /\ outLine' = 300
                   /\ outFile' = Some(Truncated)
                   /\ console' = console \cup {"exception"}
                   /\ pc' = "t_done"
              ELSE /\ out' = t.out
                   /\ outLine' = t.line
                   /\ outFile' = IF Has(t.write) THEN t.write ELSE outFile
                   /\ console' = console \cup
                          (IF t.line = 282 THEN {"empty_result"} ELSE {})
                   /\ pc' = t.next
    /\ UNCHANGED <<now, fileExists, api, inflight, response, uploadresp,
                   orderId, param_dict, retry_count, fail_type, ret, exitLine,
                   sent, uploadsSent, pollsSent, pollHistory>>

(* ================ src/xunfei.py: extract_text on its own ================ *)
(* ---------------- bounds ---------------- *)
\* lattice entries of an orderResult
MaxLattices == 2
\* word-segments of a recognition unit
MaxSegments == 2

\* the sequences over S of length at most n
SeqsUpTo(S, n) == UNION {[1..k -> S] : k \in 0..n}

(* ---------------- result payloads ---------------- *)
\* word-segments: one candidate, two candidates, no 'cw', a candidate with
\* no 'w'
ExSegments ==
    {Ws(<<Cw(<<"a">>)>>), Ws(<<Cw(<<"a">>), Cw(<<"b">>)>>),
     [cw |-> Absent], Ws(<<[w |-> Absent]>>)}
\* recognition units
ExUnits ==
    {[ws |-> Absent]}
    \cup {Rt(wss) : wss \in SeqsUpTo(ExSegments, MaxSegments) \ {<<>>}}
\* json_1best values: strs that do not decode, strs that decode to a
\* list, '{}', and objects with their units
ExBests ==
    {Garbage1Best, Empty1Best, List1Best, EmptyObj1Best,
     Json1Best(Some(EmptySt)),
     Json1Best(Some(St(<<Rt(<<Ws(<<Cw(<<"a">>)>>)>>),
                         Rt(<<Ws(<<Cw(<<"b">>)>>)>>)>>)))}
    \cup {Json1Best(Some(St(<<u>>))) : u \in ExUnits}
ExLatticeEntries ==
    {[json_1best |-> Absent]} \cup {Lattice(b) : b \in ExBests}
\* orderResult values with at most n lattice entries
ExPayloads(n) ==
    {EmptyStr, GarbageStr, ListStr, EmptyObjStr}
    \cup {JsonStr(Some(ls)) : ls \in SeqsUpTo(ExLatticeEntries, n)}
\* the dicts get_result returns, with at most n lattice entries
ExResults(n) ==
    {[raises |-> FALSE, content |-> Absent],
     [raises |-> FALSE, content |-> Some(EmptyPollContent)]}
    \cup {[raises |-> FALSE,
           content |-> Some([orderResult |-> Some(p), orderInfo |-> Absent])] :
             p \in ExPayloads(n)}

NoTail == [out |-> OutUnset, write |-> Absent, line |-> 0, next |-> "none"]

\* no extract_text call is under way
ExParked ==
    /\ xpc = "parked"
    /\ xResult = NoResponse
    /\ raw_text = <<>>
    /\ xTail = NoTail

ExInit ==
    /\ xpc = "x_entry"
    /\ xResult \in ExResults(MaxLattices)
    /\ raw_text = <<>>
    /\ xTail = NoTail

\* raw_text = extract_text(result)
ExtractCall ==
    /\ xpc = "x_entry"
    /\ raw_text' = extract_text(xResult)
    /\ xpc' = "x_extracted"
    /\ UNCHANGED <<xResult, xTail>>

\* transcribe_audio_direct from 'if not raw_text' to its return
ExtractTail ==
    /\ xpc = "x_extracted"
    /\ xTail' = TranscribeTail(RetDict(xResult))
    /\ xpc' = "x_done"
    /\ UNCHANGED <<xResult, raw_text>>

(* ================ src/xunfei.py: format_for_wechat on its own ================ *)
(* ---------------- bounds ---------------- *)
\* pieces a raw text is made of
MaxPieces == 4

(* ---------------- raw texts ---------------- *)
\* the characters of "这是第一句。这是第二句！这是第三句。" that are
\* letters, by code point
ZhZhe == "U+8FD9"
ZhShi == "U+662F"
ZhDi == "U+7B2C"
ZhYi == "U+4E00"
ZhEr == "U+4E8C"
ZhSan == "U+4E09"
ZhJu == "U+53E5"
ThreeChineseSentences ==
    <<ZhZhe, ZhShi, ZhDi, ZhYi, ZhJu, ZhStop,
      ZhZhe, ZhShi, ZhDi, ZhEr, ZhJu, ZhExcl,
      ZhZhe, ZhShi, ZhDi, ZhSan, ZhJu, ZhStop>>

\* sentences, words and whitespace a raw text is put together from
Pieces ==
    {<<"a", "b", ".">>, <<"a", SP, "b", "?">>, <<"a", "b", "!">>,
     <<"a">>, <<SP>>, <<TAB>>,
     <<ZH, ZhStop>>, <<ZH, ZhExcl>>, <<ZH, ZhQuest>>}

RECURSIVE Concat(_)
Concat(parts) ==
    IF parts = <<>> THEN <<>> ELSE Head(parts) \o Concat(Tail(parts))

\* the texts format_for_wechat is called on, of at most n pieces
RawTexts(n) ==
    {Concat(ps) : ps \in SeqsUpTo(Pieces, n)} \cup {ThreeChineseSentences}

\* no format_for_wechat call is under way
FmParked ==
    /\ fpc = "parked"
    /\ fText = <<>>
    /\ fMode = "none"
    /\ fOut = <<>>
    /\ fOut2 = <<>>

FmInit ==
    /\ fpc = "f_entry"
    /\ fText \in RawTexts(MaxPieces)
    /\ fMode = "none"
    /\ fOut = <<>>
    /\ fOut2 = <<>>

\* the mode a call works in: none for the empty text, which returns at once
ModeOf(text) ==
    IF text = <<>> THEN "none"
    ELSE IF is_english(text) THEN "space" ELSE "nospace"

\* formatted_text = format_for_wechat(raw_text)
FormatCall ==
    /\ fpc = "f_entry"
    /\ fMode' = ModeOf(fText)
    /\ fOut' = format_for_wechat(fText)
    /\ fpc' = "f_formatted"
    /\ UNCHANGED <<fText, fOut2>>

\* format_for_wechat called on the text it returned
FormatAgain ==
    /\ fpc = "f_formatted"
    /\ fOut2' = format_for_wechat(fOut)
    /\ fpc' = "f_done"
    /\ UNCHANGED <<fText, fMode, fOut>>

(* ================ src/server.py: feishu_webhook ================ *)
(* ---------------- bounds ---------------- *)
\* requests delivered to the webhook
MaxDeliveries == 3

\* the request threads of the Flask server
Handlers == {"h1", "h2"}
\* the message ids followed
MessageIds == {1, 2}

\* if len(processed_messages) > 1000
ClearAbove == 1000

\* The set processed_messages is the record of the ids followed that it
\* holds and of how many ids of other, earlier messages it holds.
Processed(others, ids) == [others |-> others, ids |-> ids]
\* len(processed_messages)
SizeOf(set) == set.others + Cardinality(set.ids)
\* the set after processed_messages.add(id)
Added(set, id) == Processed(set.others, set.ids \cup {id})
\* the set after processed_messages.clear()
Cleared == Processed(0, {})

(* ---------------- requests ---------------- *)
MessageEvent == "im.message.receive_v1"
GoodToken == "tok"
\* request bodies: no JSON, a challenge, or an event with its fields
InvalidJson ==
    [json |-> FALSE, challenge |-> FALSE, schema |-> "", token |-> Absent,
     event_type |-> "", message_id |-> 0, message_type |-> "",
     content |-> ""]
Challenge ==
    [json |-> TRUE, challenge |-> TRUE, schema |-> "", token |-> Absent,
     event_type |-> "", message_id |-> 0, message_type |-> "",
     content |-> ""]
\* content is the str in message.content: no JSON, a text with no BV
\* number in it, or a text with one
Events ==
    [json : {TRUE}, challenge : {FALSE}, schema : {"", "1.0", "2.0"},
     token : {Absent, Some(GoodToken), Some("bad")},
     event_type : {MessageEvent, "other"}, message_id : MessageIds,
     message_type : {"text", "image"}, content : {"badjson", "nobv", "bv"}]
Requests == {InvalidJson, Challenge} \cup Events

\* feishu_webhook from its entry to the reading of message_id: the
\* response it returns at once, or "message" when it goes on
Admit(e, verification_token) ==
    IF ~e.json THEN "400"
    ELSE IF e.challenge THEN "challenge"
    ELSE IF /\ e.schema = "2.0"
            /\ Has(e.token)
            /\ verification_token # ""
            /\ e.token[1] # verification_token
    THEN "403"
    ELSE IF e.event_type = MessageEvent THEN "message"
    ELSE "200"

\* position and locals of one request thread; token is
\* header.get('token') of the request it serves
Idle == [pc |-> "idle", token |-> Absent, message_id |-> 0,
         message_type |-> "", content |-> "", status |-> ""]
At(pc_, e) ==
    [pc |-> pc_, token |-> e.token, message_id |-> e.message_id,
     message_type |-> e.message_type, content |-> e.content, status |-> ""]
Returning(h, status) ==
    [pc |-> "returning", token |-> Absent, message_id |-> h.message_id,
     message_type |-> h.message_type, content |-> h.content,
     status |-> status]

\* the server is not running
SvParked ==
    /\ VERIFICATION_TOKEN = ""
    /\ processed_messages = Cleared
    /\ handler = [h \in Handlers |-> [Idle EXCEPT !.pc = "parked"]]
    /\ started = [m \in MessageIds |-> 0]
    /\ delivered = 0

\* the server has handled no message, or 999 or 1000 other messages
\* since the set was last empty
SvInit ==
    /\ VERIFICATION_TOKEN \in {"", GoodToken}
    /\ processed_messages \in
           {Processed(n, {}) : n \in {0, ClearAbove - 1, ClearAbove}}
    /\ handler = [h \in Handlers |-> Idle]
    /\ started = [m \in MessageIds |-> 0]
    /\ delivered = 0

\* a request arrives and a thread runs feishu_webhook up to the reading of
\* message_id
SvReceive(h) ==
    /\ handler[h].pc = "idle"
    /\ delivered < MaxDeliveries
    /\ delivered' = delivered + 1
    /\ \E e \in Requests :
          LET a == Admit(e, VERIFICATION_TOKEN)
          IN  handler' = [handler EXCEPT ![h] =
                  IF a = "message" THEN At("check", e)
                  ELSE Returning(At("", e),
                                 IF a = "challenge" THEN "200" ELSE a)]
    /\ UNCHANGED <<VERIFICATION_TOKEN, processed_messages, started>>

\* if message_id in processed_messages: return jsonify({"code": 0})
SvCheck(h) ==
    /\ handler[h].pc = "check"
    /\ handler' = [handler EXCEPT ![h] =
           IF handler[h].message_id \in processed_messages.ids
           THEN Returning(handler[h], "200")
           ELSE [handler[h] EXCEPT !.pc = "add"]]
    /\ UNCHANGED <<VERIFICATION_TOKEN, processed_messages, started,
                   delivered>>

\* processed_messages.add(message_id)
SvAdd(h) ==
    /\ handler[h].pc = "add"
    /\ processed_messages' = Added(processed_messages, handler[h].message_id)
    /\ handler' = [handler EXCEPT ![h].pc = "len"]
    /\ UNCHANGED <<VERIFICATION_TOKEN, started, delivered>>

\* if len(processed_messages) > 1000:
SvLen(h) ==
    /\ handler[h].pc = "len"
    /\ handler' = [handler EXCEPT ![h].pc =
           IF SizeOf(processed_messages) > ClearAbove
           THEN "clear" ELSE "dispatch"]
    /\ UNCHANGED <<VERIFICATION_TOKEN, processed_messages, started,
                   delivered>>

\* processed_messages.clear()
SvClear(h) ==
    /\ handler[h].pc = "clear"
    /\ processed_messages' = Cleared
    /\ handler' = [handler EXCEPT ![h].pc = "dispatch"]
    /\ UNCHANGED <<VERIFICATION_TOKEN, started, delivered>>

\* from msg_type = ... to the return: a text with a BV number starts a
\* process_video thread; content that is no JSON raises and gives 500
SvDispatch(h) ==
    /\ handler[h].pc = "dispatch"
    /\ LET m == handler[h]
       IN  IF m.message_type # "text"
           THEN /\ handler' = [handler EXCEPT ![h] = Returning(m, "200")]
                /\ UNCHANGED started
           ELSE IF m.content = "badjson"
           THEN /\ handler' = [handler EXCEPT ![h] = Returning(m, "500")]
                /\ UNCHANGED started
           ELSE IF m.content = "bv"
           THEN /\ started' = [started EXCEPT ![m.message_id] = @ + 1]
                /\ handler' = [handler EXCEPT ![h] = Returning(m, "200")]
           ELSE /\ handler' = [handler EXCEPT ![h] = Returning(m, "200")]
                /\ UNCHANGED started
    /\ UNCHANGED <<VERIFICATION_TOKEN, processed_messages, delivered>>

\* the response is sent and the thread is free for the next request
SvReturn(h) ==
    /\ handler[h].pc = "returning"
    /\ handler' = [handler EXCEPT ![h] = Idle]
    /\ UNCHANGED <<VERIFICATION_TOKEN, processed_messages, started,
                   delivered>>

(* ================ src/server.py: process_video ================ *)
\* the process_video threads running at the same time
Workers == {"w1", "w2"}
\* the identifiers they are started with; the title of a video, and so the
\* names of its audio file and of its output file, go with its identifier
Assets == {"BV1", "BV2"}

\* a file of bilibili_video/<BV>/: who wrote it and whether the whole
\* stream is in it
NoFile == [by |-> "", complete |-> FALSE]
Partial(w) == [by |-> w, complete |-> FALSE]
Whole(w) == [by |-> w, complete |-> TRUE]
Unread == [by |-> "unread", complete |-> FALSE]

\* how a call of send_message ends: the message was posted and the answer
\* read; get_tenant_access_token returned None, so nothing was posted and
\* False is returned; requests.post or resp.json() of the token request
\* raised; the message was posted and resp.json() of its answer raised
SendOutcomes == {"posted", "no_token", "raises", "posted_raises"}
Posts(outcome) == outcome \in {"posted", "posted_raises"}
Raises(outcome) == outcome \in {"raises", "posted_raises"}
\* the messages posted to the chat after a send of the given kind
Sent(cards, kind, outcome) ==
    IF Posts(outcome) THEN Append(cards, kind) ELSE cards

\* a thread at the start of process_video(bv_number, chat_id)
Started(bv) ==
    [pc |-> "notice", bv_number |-> bv, audio_path |-> Absent,
     output_path |-> Absent, got |-> NoFile, read |-> Unread,
     text |-> Absent, cards |-> <<>>]

\* no process_video thread exists
PvParked ==
    /\ worker = [w \in Workers |-> [Started("") EXCEPT !.pc = "parked"]]
    /\ folder = [a \in Assets |-> NoFile]
    /\ outputs = [a \in Assets |-> Absent]

\* two threads were started, for the same identifier or for two, and no
\* file of theirs exists yet
PvInit ==
    /\ worker \in [Workers -> {Started(a) : a \in Assets}]
    /\ folder = [a \in Assets |-> NoFile]
    /\ outputs = [a \in Assets |-> Absent]

\* send_processing_message(chat_id, bv_number), before the try: an
\* exception ends the thread
PvNotice(w) ==
    /\ worker[w].pc = "notice"
    /\ \E o \in SendOutcomes :
          worker' = [worker EXCEPT
              ![w].cards = Sent(@, "notice", o),
              ![w].pc = IF Raises(o) THEN "dead" ELSE "download"]
    /\ UNCHANGED <<folder, outputs>>

\* download_audio_only(bv_number) up to open(audio_path, 'wb'), which
\* creates the file or truncates the one there; or it returns (None, None)
PvDownload(w) ==
    /\ worker[w].pc = "download"
    /\ \/ /\ worker' = [worker EXCEPT ![w].pc = "no_audio"]
          /\ UNCHANGED folder
       \/ /\ folder' = [folder EXCEPT ![worker[w].bv_number] = Partial(w)]
          /\ worker' = [worker EXCEPT ![w].pc = "writing"]
    /\ UNCHANGED outputs

\* the chunks are written through the open file and (audio_path, title) is
\* returned; the file at the path is whole if it is still the one this
\* thread opened
PvDownloaded(w) ==
    /\ worker[w].pc = "writing"
    /\ LET bv == worker[w].bv_number
       IN  /\ folder' = [folder EXCEPT ![bv] =
                  IF @ = Partial(w) THEN Whole(w) ELSE @]
           /\ worker' = [worker EXCEPT
                  ![w].audio_path = Some(bv),
                  ![w].got = Whole(w),
                  ![w].pc = "transcribe"]
    /\ UNCHANGED outputs

\* transcribe_audio_direct(audio_path, output_name=title): None when the
\* file is not there (line 254, or the open of upload raising inside the
\* try); else the file is read and uploaded, and the job fails (None) or
\* its transcript is written to outputs/<title>.txt
PvTranscribe(w) ==
    /\ worker[w].pc = "transcribe"
    /\ LET bv == worker[w].bv_number
       IN  \E ok \in (IF folder[bv] = NoFile THEN {FALSE} ELSE BOOLEAN) :
              /\ worker' = [worker EXCEPT
                     ![w].read = folder[bv],
                     ![w].output_path = IF ok THEN Some(bv) ELSE Absent,
                     ![w].pc = "cleanup_audio_file"]
              /\ outputs' = IF ok THEN [outputs EXCEPT ![bv] = Some(w)]
                            ELSE outputs
    /\ UNCHANGED folder

(* ---------------- src/cleanup.py ---------------- *)
\* cleanup_audio_file(audio_path): os.remove if the path exists
PvCleanupFile(w) ==
    /\ worker[w].pc = "cleanup_audio_file"
    /\ folder' = [folder EXCEPT ![worker[w].bv_number] = NoFile]
    /\ worker' = [worker EXCEPT ![w].pc = "cleanup_bv_folder"]
    /\ UNCHANGED outputs

\* cleanup_bv_folder(bv_number): shutil.rmtree of bilibili_video/<BV>
PvCleanupFolder(w) ==
    /\ worker[w].pc = "cleanup_bv_folder"
    /\ folder' = [folder EXCEPT ![worker[w].bv_number] = NoFile]
    /\ worker' = [worker EXCEPT ![w].pc = "final"]
    /\ UNCHANGED outputs

(* ---------------- process_video, the cards ---------------- *)
\* if not audio_path: send_error_card(...); return
PvNoAudio(w) ==
    /\ worker[w].pc = "no_audio"
    /\ \E o \in SendOutcomes :
          worker' = [worker EXCEPT
              ![w].cards = Sent(@, "error", o),
              ![w].pc = IF Raises(o) THEN "except" ELSE "done"]
    /\ UNCHANGED <<folder, outputs>>

\* if output_path: the output file is read and send_success_card posts
\* it; else send_error_card
PvFinal(w) ==
    /\ worker[w].pc = "final"
    /\ \E o \in SendOutcomes :
          worker' = [worker EXCEPT
              ![w].text = IF Has(worker[w].output_path)
                          THEN outputs[worker[w].output_path[1]] ELSE @,
              ![w].cards = Sent(@, IF Has(worker[w].output_path)
                                   THEN "success" ELSE "error", o),
              ![w].pc = IF Raises(o) THEN "except" ELSE "done"]
    /\ UNCHANGED <<folder, outputs>>

\* except Exception as e: send_error_card(chat_id, bv_number, str(e)[:100])
PvExcept(w) ==
    /\ worker[w].pc = "except"
    /\ \E o \in SendOutcomes :
          worker' = [worker EXCEPT
              ![w].cards = Sent(@, "error", o),
              ![w].pc = IF Raises(o) THEN "dead" ELSE "done"]
    /\ UNCHANGED <<folder, outputs>>

(* ================ src/utils.py: download_audio_only ================ *)
(* ---------------- bounds ---------------- *)
\* chunks audio_resp.iter_content yields for the whole stream
TotalChunks == 2

(* ---------------- identifiers, titles, files ---------------- *)
\* An identifier is its sequence of characters.
\* bv_number.startswith("BV")
StartsWithBV(id) == Len(id) >= 2 /\ id[1] = "B" /\ id[2] = "V"
\* variant: the prefix is prepended to every identifier
Normalize_Always(id) == <<"B", "V">> \o id
\* if not bv_number.startswith("BV"): bv_number = "BV" + bv_number
Normalize(id) == IF StartsWithBV(id) THEN id ELSE <<"B", "V">> \o id

\* the bv_number values a caller passes
DlInputs == {<<"1">>, <<"B", "V", "1">>, <<"B", "1">>}

\* [:80] of safe_title
TitleLimit == 80
\* the characters of r'\/:*?"<>|'
IllegalChars == {"\\", "/", ":", "*", "?", "\"", "<", ">", "|"}
LongTitle == [i \in 1..(TitleLimit + 1) |-> "x"]
\* titles found in the <title> element
PageTitles == {<<"T">>, <<"T", "/", "?">>, LongTitle}

\* "".join(c for c in title if c not in r'\/:*?"<>|')[:80]
Legal(c) == c \notin IllegalChars
DropIllegal(t) == SelectSeq(t, Legal)
SafeTitle(t) ==
    LET kept == DropIllegal(t)
    IN  IF Len(kept) > TitleLimit THEN SubSeq(kept, 1, TitleLimit) ELSE kept

\* the extensions find_audio_file looks for, in its order
AudioExts == <<"m4a", "mp3", "aac", "wav", "opus", "flac">>
IsMedia(f) == \E i \in 1..Len(AudioExts) : f.ext = AudioExts[i]

\* a file of the directory: its name, as much of it as was written, and
\* who wrote it
File(name, ext, written, complete, by) ==
    [name |-> name, ext |-> ext, written |-> written, complete |-> complete,
     by |-> by]
\* the path of a file
PathOf(f) == [name |-> f.name, ext |-> f.ext]
FileAt(d, path) == {f \in d : PathOf(f) = path}
\* open(path, 'wb') creates the file or truncates the one there
Opened(d, path, by) ==
    (d \ FileAt(d, path)) \cup {File(path.name, path.ext, 0, FALSE, by)}

\* a (audio_path, title) pair, (None, None) when both are Absent
NotReturned == [returned |-> FALSE, path |-> Absent, title |-> Absent]
NoneNone == [returned |-> TRUE, path |-> Absent, title |-> Absent]
Found(path, title) ==
    [returned |-> TRUE, path |-> Some(path), title |-> Some(title)]

(* ---------------- download_audio_native ---------------- *)
\* what requests.get of the page and the parsing of the html come to:
\* an exception of requests.get / raise_for_status, or the html with its
\* title (if the <title> element matches) and the state of the manifest
FetchFailures == {"ssl_error", "timeout", "http_error"}
Manifests == {"no_playinfo", "bad_json", "no_audio", "no_baseUrl", "ok"}
NoPage == [fetch |-> "none", title |-> Absent, manifest |-> "none"]
Pages ==
    [fetch : FetchFailures, title : {Absent}, manifest : {"none"}]
    \cup [fetch : {"ok"},
          title : {Absent} \cup {Some(t) : t \in PageTitles},
          manifest : Manifests]

\* the except clause an exception of the given kind lands in, by what it
\* prints
ExceptReason(kind) ==
    IF kind = "ssl_error" THEN "ssl_error"
    ELSE IF kind = "timeout" THEN "timeout"
    ELSE "download_error"

Reason(provider, kind) == [provider |-> provider, kind |-> kind]

\* download_audio_only up to the call of download_audio_native
DlEnter ==
    /\ dpc = "d_entry"
    /\ bv_number' = Normalize(dArg)
    /\ output_dir' = Normalize(dArg)
    /\ dpc' = "n_entry"
    /\ UNCHANGED <<dArg, nativeBv, dir, page, audio_path, nativeRet, ytExit,
                   ytRet, dlRet, calls, running, reasons>>

\* download_audio_native up to the answer of the page request
NativeFetch ==
    /\ dpc = "n_entry"
    /\ nativeBv' = Normalize(bv_number)
    /\ calls' = Append(calls, "native")
    /\ running' = running \cup {"native"}
    /\ dpc' = "n_fetching"
    /\ UNCHANGED <<dArg, bv_number, output_dir, dir, page, audio_path,
                   nativeRet, ytExit, ytRet, dlRet, reasons>>

\* the page request ends (timeout=30 bounds it)
PageAnswer ==
    /\ dpc = "n_fetching"
    /\ \E p \in Pages : page' = p
    /\ dpc' = "n_page"
    /\ UNCHANGED <<dArg, bv_number, nativeBv, output_dir, dir, audio_path,
                   nativeRet, ytExit, ytRet, dlRet, calls, running, reasons>>

\* the title download_audio_native settles on
TitleOf(p, id) == Get(p.title, id)

\* from the page to the request of the audio stream, which raises or
\* answers
NativeParse ==
    /\ dpc = "n_page"
    /\ \/ /\ page.fetch # "ok"
          /\ nativeRet' = NoneNone
          /\ reasons' = Append(reasons,
                               Reason("native", ExceptReason(page.fetch)))
          /\ dpc' = "d_after_native"
          /\ running' = running \ {"native"}
          /\ UNCHANGED audio_path
       \/ /\ page.fetch = "ok"
          /\ page.manifest \in {"no_playinfo", "no_audio"}
          /\ nativeRet' = NoneNone
          /\ reasons' = Append(reasons, Reason("native", page.manifest))
          /\ dpc' = "d_after_native"
          /\ running' = running \ {"native"}
          /\ UNCHANGED audio_path
       \/ /\ page.fetch = "ok"
          /\ page.manifest \in {"bad_json", "no_baseUrl"}
          /\ nativeRet' = NoneNone
          /\ reasons' = Append(reasons, Reason("native", "download_error"))
          /\ dpc' = "d_after_native"
          /\ running' = running \ {"native"}
          /\ UNCHANGED audio_path
       \/ /\ page.fetch = "ok"
          /\ page.manifest = "ok"
          /\ \E kind \in FetchFailures :
                /\ nativeRet' = NoneNone
                /\ reasons' = Append(reasons,
                                     Reason("native", ExceptReason(kind)))
          /\ audio_path' =
                 Some([name |-> SafeTitle(TitleOf(page, nativeBv)),
                       ext |-> "m4a"])
          /\ dpc' = "d_after_native"
          /\ running' = running \ {"native"}
       \/ /\ page.fetch = "ok"
          /\ page.manifest = "ok"
          /\ audio_path' =
                 Some([name |-> SafeTitle(TitleOf(page, nativeBv)),
                       ext |-> "m4a"])
          /\ dpc' = "n_open"
          /\ UNCHANGED <<nativeRet, reasons, running>>
    /\ UNCHANGED <<dArg, bv_number, nativeBv, output_dir, dir, page, ytExit,
                   ytRet, dlRet, calls>>

\* with open(audio_path, 'wb') as f
NativeOpen ==
    /\ dpc = "n_open"
    /\ dir' = Opened(dir, audio_path[1], "native")
    /\ dpc' = "n_write"
    /\ UNCHANGED <<dArg, bv_number, nativeBv, output_dir, page, audio_path,
                   nativeRet, ytExit, ytRet, dlRet, calls, running, reasons>>

\* the file after one more chunk was written to it
Written(f) ==
    File(f.name, f.ext, f.written + 1, f.written + 1 = TotalChunks, f.by)

\* one round of the chunk loop: the next chunk is written, or the stream
\* breaks and iter_content raises, or the stream is at its end
NativeChunk ==
    /\ dpc = "n_write"
    /\ LET f == CHOOSE g \in dir : PathOf(g) = audio_path[1]
       IN  \/ /\ f.written < TotalChunks
              /\ dir' = (dir \ {f}) \cup {Written(f)}
              /\ UNCHANGED <<dpc, nativeRet, reasons, running>>
           \/ /\ f.written < TotalChunks
              /\ \E kind \in {"timeout", "http_error"} :
                    reasons' = Append(reasons,
                                      Reason("native", ExceptReason(kind)))
              /\ nativeRet' = NoneNone
              /\ dpc' = "d_after_native"
              /\ running' = running \ {"native"}
              /\ UNCHANGED dir
           \/ /\ f.written = TotalChunks
              /\ nativeRet' = Found(audio_path[1], TitleOf(page, nativeBv))
              /\ dpc' = "d_after_native"
              /\ running' = running \ {"native"}
              /\ UNCHANGED <<dir, reasons>>
    /\ UNCHANGED <<dArg, bv_number, nativeBv, output_dir, page, audio_path,
                   ytExit, ytRet, dlRet, calls>>

(* ---------------- download_audio_with_ytdlp ---------------- *)
\* how subprocess.run of yt-dlp ends: FileNotFoundError, TimeoutExpired,
\* another exception, or a return code
YtExits == {"not_installed", "timeout", "error", "nonzero", "ok"}
\* titles yt-dlp fills into %(title)s
YtTitles == {<<"T">>, <<"Y">>}

\* what each exit prints
YtReason(exit) == IF exit = "nonzero" THEN "failed" ELSE exit

\* glob.glob(os.path.join(output_dir, ext))
Glob(d, ext) == {f \in d : f.ext = ext}

\* the pairs find_audio_file can return: for the first extension of its
\* list with a match, any match (glob's order is the file system's)
find_audio_file(d) ==
    LET hits == {i \in 1..Len(AudioExts) : Glob(d, AudioExts[i]) # {}}
    IN  IF hits = {} THEN {NoneNone}
        ELSE LET first == CHOOSE i \in hits : \A j \in hits : i <= j
             IN  {Found(PathOf(f), f.name) : f \in Glob(d, AudioExts[first])}

\* download_audio_with_ytdlp up to the start of the subprocess
YtdlpRun ==
    /\ dpc = "y_entry"
    /\ calls' = Append(calls, "ytdlp")
    /\ running' = running \cup {"ytdlp"}
    /\ dpc' = "y_running"
    /\ UNCHANGED <<dArg, bv_number, nativeBv, output_dir, dir, page,
                   audio_path, nativeRet, ytExit, ytRet, dlRet, reasons>>

\* the subprocess ends (timeout=300 bounds it); with return code 0 it has
\* written <title>.mp3 whole, with or without a .xml file next to it
YtdlpExit ==
    /\ dpc = "y_running"
    /\ \E exit \in YtExits :
          /\ ytExit' = exit
          /\ IF exit = "ok"
             THEN \E t \in YtTitles, xml \in BOOLEAN :
                     LET mp3 == [name |-> t, ext |-> "mp3"]
                         side == [name |-> t, ext |-> "xml"]
                         d1 == (dir \ FileAt(dir, mp3))
                               \cup {File(t, "mp3", TotalChunks, TRUE, "ytdlp")}
                     IN  dir' = IF xml
                                THEN (d1 \ FileAt(d1, side))
                                     \cup {File(t, "xml", 1, TRUE, "ytdlp")}
                                ELSE d1
             ELSE UNCHANGED dir
    /\ dpc' = "y_exited"
    /\ UNCHANGED <<dArg, bv_number, nativeBv, output_dir, page, audio_path,
                   nativeRet, ytRet, dlRet, calls, running, reasons>>

\* the rest of download_audio_with_ytdlp
YtdlpReturn ==
    /\ dpc = "y_exited"
    /\ IF ytExit = "ok"
       THEN LET cleaned == dir \ Glob(dir, "xml")
            IN  /\ dir' = cleaned
                /\ \E r \in find_audio_file(cleaned) : ytRet' = r
                /\ UNCHANGED reasons
       ELSE /\ ytRet' = NoneNone
            /\ reasons' = Append(reasons, Reason("ytdlp", YtReason(ytExit)))
            /\ UNCHANGED dir
    /\ running' = running \ {"ytdlp"}
    /\ dpc' = "d_after_ytdlp"
    /\ UNCHANGED <<dArg, bv_number, nativeBv, output_dir, page, audio_path,
                   nativeRet, ytExit, dlRet, calls>>

(* ---------------- download_audio_only ---------------- *)
\* if audio_path:
ProviderSucceeded_Always(r) == TRUE
ProviderSucceeded(r) == Has(r.path)

\* download_audio_only after download_audio_native returned
DlAfterNative ==
    /\ dpc = "d_after_native"
    /\ IF ProviderSucceeded(nativeRet)
       THEN /\ dlRet' = nativeRet
            /\ dpc' = "d_done"
       ELSE /\ dpc' = "y_entry"
            /\ UNCHANGED dlRet
    /\ UNCHANGED <<dArg, bv_number, nativeBv, output_dir, dir, page,
                   audio_path, nativeRet, ytExit, ytRet, calls, running,
                   reasons>>

\* download_audio_only after download_audio_with_ytdlp returned
DlAfterYtdlp ==
    /\ dpc = "d_after_ytdlp"
    /\ dlRet' = IF ProviderSucceeded(ytRet) THEN ytRet ELSE NoneNone
    /\ dpc' = "d_done"
    /\ UNCHANGED <<dArg, bv_number, nativeBv, output_dir, dir, page,
                   audio_path, nativeRet, ytExit, ytRet, calls, running,
                   reasons>>

Next ==
    \/ TranscribeEnter
    \/ Construct
    \/ UploadSend
    \/ RemoteAnswerUpload
    \/ UploadReturn
    \/ PollSend
    \/ LoopExit
    \/ RemoteAnswerPoll
    \/ PollHandle
    \/ TranscribeReturn

\* no download_audio_only call is under way
DlParked ==
    /\ dpc = "parked"
    /\ dArg = <<>>
    /\ bv_number = <<>>
    /\ nativeBv = <<>>
    /\ output_dir = <<>>
    /\ dir = {}
    /\ page = NoPage
    /\ audio_path = Absent
    /\ nativeRet = NotReturned
    /\ ytExit = "none"
    /\ ytRet = NotReturned
    /\ dlRet = NotReturned
    /\ calls = <<>>
    /\ running = {}
    /\ reasons = <<>>

JobInit == Init /\ DlParked /\ ExParked /\ FmParked /\ SvParked /\ PvParked
\* a step of the job; no other component moves
JobNext ==
    \/ TranscribeEnter /\ UNCHANGED othersOfJob
    \/ Construct /\ UNCHANGED othersOfJob
    \/ UploadSend /\ UNCHANGED othersOfJob
    \/ RemoteAnswerUpload /\ UNCHANGED othersOfJob
    \/ UploadReturn /\ UNCHANGED othersOfJob
    \/ PollSend /\ UNCHANGED othersOfJob
    \/ LoopExit /\ UNCHANGED othersOfJob
    \/ RemoteAnswerPoll /\ UNCHANGED othersOfJob
    \/ PollHandle /\ UNCHANGED othersOfJob
    \/ TranscribeReturn /\ UNCHANGED othersOfJob

Spec == JobInit /\ [][JobNext]_allVars

\* no transcription job is under way
JobParked ==
    /\ pc = "parked"
    /\ now = 0
    /\ fileExists = FALSE
    /\ outFile = Absent
    /\ api = NoApi
    /\ inflight = Absent
    /\ response = NoUploadResp
    /\ uploadresp = NoUploadResp
    /\ orderId = Absent
    /\ param_dict = NoRequest
    /\ retry_count = 0
    /\ fail_type = Absent
    /\ ret = RetUnset
    /\ exitLine = 0
    /\ outLine = 0
    /\ out = OutUnset
    /\ console = {}
    /\ sent = {}
    /\ uploadsSent = 0
    /\ pollsSent = 0
    /\ pollHistory = "none"

\* one call of download_audio_only on an identifier whose directory is
\* empty
DlInit ==
    /\ dpc = "d_entry"
    /\ dArg \in DlInputs
    /\ bv_number = <<>>
    /\ nativeBv = <<>>
    /\ output_dir = <<>>
    /\ dir = {}
    /\ page = NoPage
    /\ audio_path = Absent
    /\ nativeRet = NotReturned
    /\ ytExit = "none"
    /\ ytRet = NotReturned
    /\ dlRet = NotReturned
    /\ calls = <<>>
    /\ running = {}
    /\ reasons = <<>>

DlInitAll == DlInit /\ JobParked /\ ExParked /\ FmParked /\ SvParked /\ PvParked

\* a step of the download; no other component moves
DlNext ==
    \/ DlEnter /\ UNCHANGED othersOfDl
    \/ NativeFetch /\ UNCHANGED othersOfDl
    \/ PageAnswer /\ UNCHANGED othersOfDl
    \/ NativeParse /\ UNCHANGED othersOfDl
    \/ NativeOpen /\ UNCHANGED othersOfDl
    \/ NativeChunk /\ UNCHANGED othersOfDl
    \/ DlAfterNative /\ UNCHANGED othersOfDl
    \/ YtdlpRun /\ UNCHANGED othersOfDl
    \/ YtdlpExit /\ UNCHANGED othersOfDl
    \/ YtdlpReturn /\ UNCHANGED othersOfDl
    \/ DlAfterYtdlp /\ UNCHANGED othersOfDl

SpecDl == DlInitAll /\ [][DlNext]_allVars

ExInitAll == ExInit /\ JobParked /\ DlParked /\ FmParked /\ SvParked /\ PvParked

\* a step of the extraction; no other component moves
ExNext ==
    \/ ExtractCall /\ UNCHANGED othersOfEx
    \/ ExtractTail /\ UNCHANGED othersOfEx

SpecEx == ExInitAll /\ [][ExNext]_allVars

FmInitAll == FmInit /\ JobParked /\ DlParked /\ ExParked /\ SvParked /\ PvParked

\* a step of the formatting; no other component moves
FmNext ==
    \/ FormatCall /\ UNCHANGED othersOfFm
    \/ FormatAgain /\ UNCHANGED othersOfFm

SpecFm == FmInitAll /\ [][FmNext]_allVars

SvInitAll == SvInit /\ JobParked /\ DlParked /\ ExParked /\ FmParked /\ PvParked

\* a step of a request thread; no other component moves
SvNext ==
    \/ \E h \in Handlers : SvReceive(h) /\ UNCHANGED othersOfSv
    \/ \E h \in Handlers : SvCheck(h) /\ UNCHANGED othersOfSv
    \/ \E h \in Handlers : SvAdd(h) /\ UNCHANGED othersOfSv
    \/ \E h \in Handlers : SvLen(h) /\ UNCHANGED othersOfSv
    \/ \E h \in Handlers : SvClear(h) /\ UNCHANGED othersOfSv
    \/ \E h \in Handlers : SvDispatch(h) /\ UNCHANGED othersOfSv
    \/ \E h \in Handlers : SvReturn(h) /\ UNCHANGED othersOfSv

SpecSv == SvInitAll /\ [][SvNext]_allVars

PvInitAll == PvInit /\ JobParked /\ DlParked /\ ExParked /\ FmParked /\ SvParked

\* a step of a process_video thread; no other component moves
PvNext ==
    \/ \E w \in Workers : PvNotice(w) /\ UNCHANGED othersOfPv
    \/ \E w \in Workers : PvDownload(w) /\ UNCHANGED othersOfPv
    \/ \E w \in Workers : PvDownloaded(w) /\ UNCHANGED othersOfPv
    \/ \E w \in Workers : PvTranscribe(w) /\ UNCHANGED othersOfPv
    \/ \E w \in Workers : PvCleanupFile(w) /\ UNCHANGED othersOfPv
    \/ \E w \in Workers : PvCleanupFolder(w) /\ UNCHANGED othersOfPv
    \/ \E w \in Workers : PvNoAudio(w) /\ UNCHANGED othersOfPv
    \/ \E w \in Workers : PvFinal(w) /\ UNCHANGED othersOfPv
    \/ \E w \in Workers : PvExcept(w) /\ UNCHANGED othersOfPv

SpecPv == PvInitAll /\ [][PvNext]_allVars

(* ---------------- properties ---------------- *)
\* get_result has returned or transcribe_audio_direct has
Returned == pc \in {"gr_returned", "t_done"}
PollRequests == {r \in sent : r.endpoint = "/getResult"}

\* C1: when every poll response reports status 3 with no result, get_result
\* returns None through the 'wait timeout' exit after exactly max_retries
\* poll requests, and up to then every answered poll has advanced the
\* attempt counter.
C1_TimeoutAfterExactlyMaxPolls ==
    (pollHistory \in {"none", "status3"} /\ Has(orderId)) =>
        /\ pc = "loop" => pollsSent = retry_count
        /\ Returned =>
              /\ ret = RetNone
              /\ exitLine = 152
              /\ "wait_timeout" \in console
              /\ pollsSent = max_retries

C1_Witness ==
    /\ pc = "t_done"
    /\ pollHistory = "status3"
    /\ exitLine = 152
    /\ pollsSent = max_retries
    /\ out = OutNone

\* C2: the attempt counter never decreases and never exceeds max_retries,
\* no more than max_retries polls are sent, and a poll response without a
\* content block advances the counter by exactly one, as a status-3
\* response does, and goes back to the loop without returning or printing
\* anything.
C2_AttemptsBounded ==
    /\ [](retry_count <= max_retries /\ pollsSent <= max_retries)
    /\ [][retry_count' >= retry_count]_vars
    /\ [][(pc = "poll_got" /\ ~response.raises /\ ~Has(response.content)) =>
              /\ retry_count' = retry_count + 1
              /\ pc' = "loop"
              /\ UNCHANGED <<ret, exitLine, out, outLine, console, fail_type>>
         ]_vars
    /\ [][(pc = "poll_got" /\ IsProcessingResponse(ResultOf(response))) =>
              /\ retry_count' = retry_count + 1
              /\ pc' = "loop"
         ]_vars

C2_Witness ==
    /\ pc = "loop"
    /\ pollHistory = "no_content"
    /\ retry_count = max_retries
    /\ pollsSent = max_retries
    /\ ret = RetUnset
    /\ out = OutUnset
    /\ console = {}

\* C3: a poll response with a non-empty orderResult makes get_result
\* return that response at once, whatever its status field says, and no
\* poll is sent after get_result has returned.
C3_ResultBeatsStatus ==
    /\ [][(pc = "poll_got" /\ ~response.raises /\ Has(response.content)
           /\ Truthy(OrderResultOf(ResultOf(response)))) =>
              /\ pc' = "gr_returned"
              /\ ret' = RetDict(ResultOf(response))
              /\ exitLine' = 135
              /\ pollsSent' = pollsSent
         ]_vars
    /\ [][Returned => (Returned' /\ pollsSent' = pollsSent)]_vars

C3_Witness ==
    /\ pc = "t_done"
    /\ ret.kind = "dict"
    /\ exitLine = 135
    /\ Truthy(OrderResultOf(ret.body))
    /\ OrderInfoOf(ret.body).status = Some(-1)

\* the failType a caller can read off the value get_result returned
FailTypeCarried(r) ==
    IF r.kind = "dict" THEN OrderInfoOf(r.body).failType ELSE Absent

\* C4: a poll response with no result and a status other than 3 ends the
\* job at once in a failure that carries the service's failType to the
\* caller.
C4_FailureCarriesFailType ==
    exitLine = 149 =>
        /\ Returned
        /\ ret.kind # "dict"
        /\ FailTypeCarried(ret) = fail_type

\* C5: after an upload response with a non-success code no poll request is
\* sent, whatever else the response holds.
C5_RejectedUploadNeverPolled ==
    "upload_failed_88" \in console => (pollsSent = 0 /\ PollRequests = {})

\* C6: an upload response with a success code and no content.orderId ends
\* the job in a failure (get_result returns None) and no poll request is
\* sent.
C6_MissingOrderIdIsTerminal ==
    (UploadCodeOk(uploadresp)
     /\ ~Has(Get(uploadresp.content, EmptyUploadContent).orderId)) =>
        /\ Returned
        /\ ret = RetNone
        /\ exitLine = 98
        /\ out \in {OutUnset, OutNone}
        /\ pollsSent = 0
        /\ PollRequests = {}

C6_Witness ==
    /\ pc = "t_done"
    /\ UploadCodeOk(uploadresp)
    /\ Has(uploadresp.content)
    /\ ~Has(uploadresp.content[1].orderId)
    /\ out = OutNone
    /\ pollsSent = 0

\* C7: every HTTP request the client is waiting on (the upload and each
\* poll) is bounded by a network-level timeout, so that no unanswered
\* request can block the client for ever.
C7_EveryRequestHasTimeout ==
    Has(inflight) => Has(inflight[1].timeout)

\* C8: one call sends at most one upload request, and exactly one once
\* get_result has returned; after a timeout, a remote failure or an empty
\* result nothing more is sent.
C8_SingleUpload ==
    /\ [](uploadsSent <= 1)
    /\ [](ret # RetUnset => uploadsSent = 1)
    /\ [](pc = "t_done" /\ fileExists => uploadsSent = 1)
    /\ [][Returned => (Returned' /\ uploadsSent' = uploadsSent
                       /\ pollsSent' = pollsSent /\ sent' = sent
                       /\ inflight' = Absent)]_vars

C8_Witness ==
    /\ pc = "t_done"
    /\ outLine = 282
    /\ ret.kind = "dict"
    /\ out = OutNone
    /\ uploadsSent = 1

\* C9: the orderId is taken once from the upload response and every poll
\* request carries it; it does not change between polls.
C9_OneOrderId ==
    /\ [](\A r \in PollRequests :
              /\ Has(r.orderId)
              /\ r.orderId = orderId
              /\ r.orderId = Get(uploadresp.content, EmptyUploadContent).orderId)
    /\ [][Has(orderId) => (orderId' = orderId /\ param_dict' = param_dict)]_vars

C9_Witness ==
    /\ pollsSent = max_retries
    /\ orderId = Some("ORD2")
    /\ PollRequests = {param_dict}
    /\ param_dict.orderId = Some("ORD2")

Triple(r) == <<r.appId, r.signa, r.ts>>

\* C10: ts and signa are fixed by the constructor; upload and every poll
\* leave them unchanged, and the upload request and all poll requests
\* carry the same (appId, signa, ts), the constructor's.
C10_SignatureFixed ==
    /\ [](\A r \in sent : Triple(r) = <<api.appid, api.signa, api.ts>>)
    /\ [](api # NoApi =>
              api.signa = _get_signa(api.appid, api.secret_key, api.ts))
    /\ [][api # NoApi => api' = api]_vars

C10_Witness ==
    /\ pollsSent = max_retries
    /\ uploadsSent = 1
    /\ Cardinality(sent) = 2
    /\ Cardinality({Triple(r) : r \in sent}) = 1
    /\ ToString(now) # api.ts

(* ---------------- properties of download_audio_only ---------------- *)
\* download_audio_only has returned
DlReturned == dpc = "d_done" /\ dlRet.returned

\* a provider has returned a failure: (None, None)
ProviderFailed(r) == r.returned /\ ~Has(r.path)

\* C11: the providers are tried in the order direct fetch, delegated
\* extraction, each at most once and never two at a time; the delegated
\* extraction is invoked exactly when the direct fetch has returned a
\* failure, whatever the reason, and a success of the direct fetch is
\* returned as it is with no delegated extraction.
C11_DirectThenDelegated ==
    /\ calls \in {<<>>, <<"native">>, <<"native", "ytdlp">>}
    /\ Cardinality(running) <= 1
    /\ "ytdlp" \in running => ProviderFailed(nativeRet)
    /\ Len(calls) = 2 => ProviderFailed(nativeRet)
    /\ DlReturned =>
          /\ nativeRet.returned
          /\ ProviderFailed(nativeRet) => Len(calls) = 2
          /\ Has(nativeRet.path) => (dlRet = nativeRet /\ calls = <<"native">>)

\* the direct fetch failed on a manifest it could not parse and the
\* delegated extraction ran after it
C11_Witness ==
    /\ DlReturned
    /\ calls = <<"native", "ytdlp">>
    /\ page.manifest = "bad_json"
    /\ reasons[1] = Reason("native", "download_error")

\* the failure records a caller can read off the pair download_audio_only
\* returned: the pair holds a path and a title, or None and None
ReasonsCarried(r) == <<>>

\* C12: when both providers fail, the failure returned holds two records,
\* the reason of the direct fetch first and the reason of the delegated
\* extraction second.
C12_BothReasonsReturned ==
    (DlReturned /\ ProviderFailed(nativeRet) /\ ProviderFailed(ytRet)) =>
        /\ ~Has(dlRet.path)
        /\ Len(reasons) = 2
        /\ reasons[1].provider = "native"
        /\ reasons[2].provider = "ytdlp"
        /\ ReasonsCarried(dlRet) = reasons

\* the provider whose result download_audio_only returned
Succeeded == IF Has(nativeRet.path) THEN "native" ELSE "ytdlp"

\* C13: whenever download_audio_only returns success, the identifier's
\* directory holds one media file, the file at the returned path, written
\* whole by the provider that succeeded, and no .xml file.
C13_SuccessLeavesOneWholeFile ==
    (DlReturned /\ Has(dlRet.path)) =>
        /\ Glob(dir, "xml") = {}
        /\ Cardinality({f \in dir : IsMedia(f)}) = 1
        /\ \A f \in dir :
              IsMedia(f) =>
                  /\ PathOf(f) = dlRet.path[1]
                  /\ f.complete
                  /\ f.by = Succeeded

(* ---------------- properties of extract_text ---------------- *)
\* the orderResult extract_text is given
PayloadOf(result) ==
    Get(Get(result.content, EmptyPollContent).orderResult, EmptyObjStr)

\* the text of the first candidate word of a word-segment
FirstCandidate(ws) ==
    LET cws == Get(ws.cw, <<>>)
    IN  IF cws = <<>> THEN <<>> ELSE Get(cws[1].w, <<>>)

\* one word per word-segment: the first candidates of the word-segments of
\* the units of the lattices, in order, with no separator
RECURSIVE FirstOfSegments(_)
FirstOfSegments(wss) ==
    IF wss = <<>> THEN <<>>
    ELSE FirstCandidate(Head(wss)) \o FirstOfSegments(Tail(wss))
RECURSIVE FirstOfUnits(_)
FirstOfUnits(rts) ==
    IF rts = <<>> THEN <<>>
    ELSE FirstOfSegments(Get(Head(rts).ws, <<>>)) \o FirstOfUnits(Tail(rts))
RECURSIVE FirstOfLattices(_)
FirstOfLattices(ls) ==
    IF ls = <<>> THEN <<>>
    ELSE FirstOfUnits(Get(Get(BestOf(Head(ls)).st, EmptySt).rt, <<>>))
         \o FirstOfLattices(Tail(ls))

\* a decoding error at some level of the payload: orderResult or a
\* json_1best is no JSON, or decodes to something that is no object
DecodeError(p) ==
    \/ p.kind \in {"garbage", "list"}
    \/ /\ p.kind = "json"
       /\ \E i \in 1..Len(Get(p.lattice, <<>>)) :
             /\ Has(p.lattice[1][i].json_1best)
             /\ p.lattice[1][i].json_1best[1].kind # "json"

\* C14: extract_text returns the concatenation, with no separator, of one
\* word per word-segment, the first candidate of each, over the lattices,
\* units and word-segments in order.
C14_FirstCandidateOfEachSegment ==
    (xpc # "x_entry" /\ xpc # "parked" /\ ~DecodeError(PayloadOf(xResult))) =>
        raw_text = FirstOfLattices(Get(PayloadOf(xResult).lattice, <<>>))

\* C15: a decoding error at any level of the payload makes extract_text
\* return the empty text, fragments of earlier lattices included, and
\* transcribe_audio_direct then returns None and writes no file.
C15_DecodeErrorGivesEmptyResult ==
    /\ (xpc \in {"x_extracted", "x_done"} /\ DecodeError(PayloadOf(xResult)))
          => raw_text = <<>>
    /\ (xpc = "x_done" /\ DecodeError(PayloadOf(xResult))) =>
          /\ xTail.out = OutNone
          /\ xTail.write = Absent
          /\ xTail.next = "t_done"

\* a lattice that decodes to the word "a" is followed by one whose
\* json_1best does not decode
C15_Witness ==
    /\ xpc = "x_done"
    /\ PayloadOf(xResult) =
           JsonStr(Some(<<Lattice(Json1Best(Some(St(<<Rt(<<Ws(<<Cw(<<"a">>)>>)>>)>>)))),
                          Lattice(Garbage1Best)>>))
    /\ xTail.line = 282

(* ---------------- properties of format_for_wechat ---------------- *)
NonEmpty(t) == t # <<>>
\* the paragraphs of a formatted text: the parts blank lines separate
ParagraphsOf(o) == SelectSeq(SplitNL(o), NonEmpty)

\* the sentences of a text, counted by the terminators given: each
\* terminator ends one, and text after the last one is one more
SentenceCount(t, terminators) ==
    CountIn(t, terminators)
    + (IF Strip(t) # <<>> /\ Strip(t)[Len(Strip(t))] \notin terminators
       THEN 1 ELSE 0)

EnTerminators == {".", "!", "?"}
EnStrong == {"!", "?"}
ZhTerminators == {ZhStop, ZhExcl, ZhQuest}
ZhStrong == {ZhExcl, ZhQuest}

\* every paragraph has at most limit sentences, a strong terminator is
\* the last character of its paragraph, and a paragraph before the last
\* one has limit sentences or ends in a strong terminator
GroupedBy(o, limit, terminators, strong) ==
    LET ps == ParagraphsOf(o)
    IN  \A k \in 1..Len(ps) :
           /\ SentenceCount(ps[k], terminators) <= limit
           /\ \A i \in 1..Len(ps[k]) : ps[k][i] \in strong => i = Len(ps[k])
           /\ k < Len(ps) =>
                 \/ SentenceCount(ps[k], terminators) = limit
                 \/ ps[k][Len(ps[k])] \in strong

Sentence == <<"a", "b", ".">>
Paragraph3 == <<"a", "b", ".", SP, "a", "b", ".", SP, "a", "b", ".">>

\* C16: in space-delimited mode every paragraph has at most 3 sentences, a
\* sentence ending in '!' or '?' is the last of its paragraph, a paragraph
\* is closed only by its third sentence, by a strong terminator or by the
\* end of the input, and no sentence is lost or added; three sentences
\* ending in '.' give one paragraph and a fourth starts a second one.
C16_EnglishParagraphs ==
    (fpc \in {"f_formatted", "f_done"} /\ fMode = "space") =>
        /\ GroupedBy(fOut, 3, EnTerminators, EnStrong)
        /\ SentenceCount(fOut, EnTerminators)
               = SentenceCount(fText, EnTerminators)
        /\ fText = Sentence \o Sentence \o Sentence => fOut = Paragraph3
        /\ fText = Sentence \o Sentence \o Sentence \o Sentence =>
               fOut = Paragraph3 \o <<NL, NL>> \o Sentence

\* four sentences ending in '.' have been formatted
C16_Witness ==
    /\ fpc = "f_done"
    /\ fMode = "space"
    /\ fText = Sentence \o Sentence \o Sentence \o Sentence
    /\ Len(ParagraphsOf(fOut)) = 2

NotWhitespace(c) == c \notin Whitespace

\* C17: in no-space mode all whitespace is removed, the text is split
\* after each of the full-width full stop, exclamation and question mark,
\* and the sentences are grouped into paragraphs of at most 2 where a
\* sentence ending in the exclamation or question mark closes its
\* paragraph; the three sentences of the example come out as the
\* paragraph of the first two, a blank line, and the third.
C17_ChineseParagraphs ==
    (fpc \in {"f_formatted", "f_done"} /\ fMode = "nospace") =>
        /\ GroupedBy(fOut, 2, ZhTerminators, ZhStrong)
        /\ Concat(ParagraphsOf(fOut)) = SelectSeq(fText, NotWhitespace)
        /\ SentenceCount(fOut, ZhTerminators)
               = SentenceCount(fText, ZhTerminators)
        /\ fText = ThreeChineseSentences =>
               fOut = SubSeq(ThreeChineseSentences, 1, 12) \o <<NL, NL>>
                      \o SubSeq(ThreeChineseSentences, 13, 18)

\* the three sentences of the example have been formatted
C17_Witness ==
    /\ fpc = "f_done"
    /\ fMode = "nospace"
    /\ fText = ThreeChineseSentences
    /\ Len(ParagraphsOf(fOut)) = 2

\* re.sub over any terminator: a line break after each, whitespace after
\* it dropped
RECURSIVE BreakAll(_)
BreakAll(t) ==
    IF t = <<>> THEN <<>>
    ELSE IF Head(t) \in EnTerminators \cup ZhTerminators
    THEN <<Head(t), NL>> \o BreakAll(LStrip(Tail(t)))
    ELSE <<Head(t)>> \o BreakAll(Tail(t))

\* the sentences of a formatted text, in order, each with its words and
\* the separation between them
SentencesIn(o) == SentenceLines(BreakAll(o))

\* C18: formatting a formatted text again gives the same sequence of
\* sentences, each with the same words and the same separation between
\* words; only the grouping into paragraphs may differ.
C18_FormatAgainKeepsSentences ==
    fpc = "f_done" => SentencesIn(fOut2) = SentencesIn(fOut)

\* the characters of a text that are no whitespace of any kind
NonWhitespaceCount(t) == Len(SelectSeq(t, NotWhitespace))
IsAsciiLetter(c) == c \in AsciiLetters
IsNotSpace(c) == c # SP
LetterCount(t) == Len(SelectSeq(t, IsAsciiLetter))

C20_OneWorkerPerMessage ==
    \A m \in MessageIds : started[m] <= 1

\* the identifier with the prefix "BV", written out: as it is when its
\* first two characters are B and V, with the two prepended otherwise
Prefixed(id) ==
    IF Len(id) >= 2 /\ SubSeq(id, 1, 2) = <<"B", "V">>
    THEN id ELSE <<"B", "V">> \o id

\* C22: normalization prepends "BV" exactly when the identifier does not
\* start with it and leaves a normalized identifier unchanged, so
\* download_audio_only, its directory and download_audio_native work on
\* one identifier.
C22_NormalizeOnceAndForAll ==
    /\ dpc \notin {"parked", "d_entry"} =>
          /\ bv_number = Prefixed(dArg)
          /\ Prefixed(bv_number) = bv_number
          /\ output_dir = bv_number
    /\ "native" \in running \/ nativeRet.returned =>
          nativeBv = bv_number

\* an identifier passed without the prefix has gone through both
\* normalizations
C22_Witness ==
    /\ dArg = <<"1">>
    /\ nativeRet.returned
    /\ nativeBv = <<"B", "V", "1">>

\* the requests sent so far and the one in flight carry the signature s
AllSignedWith(s) ==
    /\ \A r \in sent : r.signa = s
    /\ Has(inflight) => inflight[1].params.signa = s

\* C23: the signature of a job is base64(HMAC-SHA1(key = secretKey,
\* message = hex MD5 of appId followed by the timestamp)): a function of
\* appId, secretKey and timestamp and of nothing else in the state.
C23_SignatureOfCredentialsAndTime ==
    api # NoApi =>
        /\ api.signa.alg = "base64"
        /\ api.signa.of[1].alg = "hmac-sha1"
        /\ api.signa.of[1].key = api.secret_key
        /\ api.signa.of[1].of[1].alg = "md5hex"
        /\ api.signa.of[1].of[1].of[1] = api.appid \o api.ts
        /\ AllSignedWith(api.signa)

\* two requests of a job constructed at time 1 have been sent
C23_Witness ==
    /\ api # NoApi
    /\ api.ts = "1"
    /\ Cardinality(sent) >= 2

\* where the job is on Created -> Uploading -> Polling -> terminal
Phase(pc_) ==
    IF pc_ \in {"parked", "t_entry", "construct"} THEN 0
    ELSE IF pc_ \in {"upload", "upload_wait", "upload_got"} THEN 1
    ELSE IF pc_ \in {"loop", "poll_wait", "poll_got"} THEN 2
    ELSE 3

\* C24: the job only moves forward along Created, Uploading, Polling,
\* terminal; polling is entered only from the received upload response and
\* with an orderId, no poll is sent without that response and orderId, and
\* once the job has returned no upload or poll is sent any more.
C24_ForwardOnly ==
    /\ [](pollsSent > 0 => Has(orderId) /\ uploadresp # NoUploadResp)
    /\ [](Phase(pc) = 2 => Has(orderId) /\ uploadsSent = 1)
    /\ [][Phase(pc') >= Phase(pc)]_vars
    /\ [][Phase(pc') = 2 /\ Phase(pc) # 2 =>
              pc = "upload_got" /\ uploadresp' = response /\ Has(orderId')]_vars
    /\ [][pollsSent' # pollsSent => Phase(pc) = 2 /\ Has(orderId)]_vars
    /\ [][uploadsSent' # uploadsSent => Phase(pc) = 1 /\ pollsSent = 0]_vars
    /\ [][Phase(pc) = 3 =>
              pollsSent' = pollsSent /\ uploadsSent' = uploadsSent
              /\ sent' = sent]_vars

C24_Witness ==
    /\ pc = "t_done"
    /\ uploadsSent = 1
    /\ pollsSent >= 2
    /\ Has(orderId)

\* C25: the output file is created or changed only by a call that succeeded
\* with a non-empty transcript and returns the output path; a call that
\* returns None leaves the file as it was.
C25_WritesOnlyOnSuccess ==
    /\ [][outFile' # outFile =>
              /\ ret.kind = "dict"
              /\ extract_text(ret.body) # <<>>
              /\ out' = output_path]_vars
    /\ [][out' = OutNone => outFile' = outFile]_vars

\* the request a thread serves carries the configured token
TokenMatches(h) == handler[h].token = Some(VERIFICATION_TOKEN)

\* C26: with a verification token configured, a request whose token is
\* not the configured one (a different token or none, under any schema)
\* never adds its message id to processed_messages and never starts a
\* process_video worker.
C26_WrongTokenStartsNothing ==
    [][\A h \in Handlers :
          (VERIFICATION_TOKEN # "" /\ ~TokenMatches(h)) =>
              /\ ~(handler[h].pc = "add" /\ handler'[h].pc = "len")
              /\ ~(handler[h].pc = "dispatch" /\ started' # started)]_svVars

\* C28: processed_messages never holds more than ClearAbove + 1 ids, and
\* never more than ClearAbove when a request thread returns its response.
C28_SetStaysBounded ==
    /\ SizeOf(processed_messages) <= ClearAbove + 1
    /\ \A h \in Handlers :
          handler[h].pc = "returning" =>
              SizeOf(processed_messages) <= ClearAbove

\* the thread has left process_video, by a return or by an exception
Ended(w) == worker[w].pc \in {"done", "dead"}

\* C27: the messages a process_video thread posts are the processing
\* notice and then one final card, no more; the final card is a success
\* card exactly when the download gave an audio file and the transcription
\* an output file, an error card otherwise; a thread that has ended has
\* posted its final card.
C27_NoticeThenOneFinalCard ==
    \A w \in Workers :
        LET c == worker[w].cards
        IN  /\ Len(c) <= 2
            /\ Len(c) >= 1 => c[1] = "notice"
            /\ Len(c) = 2 =>
                  c[2] = (IF Has(worker[w].audio_path)
                             /\ Has(worker[w].output_path)
                          THEN "success" ELSE "error")
            /\ Ended(w) => Len(c) = 2

\* C21: the audio file a thread's transcription reads is the file its
\* download returned, whole; the transcript a thread posts is the one its
\* own job wrote.
C21_WorkersDoNotInterfere ==
    \A w \in Workers :
        /\ worker[w].read # Unread => worker[w].read = worker[w].got
        /\ Has(worker[w].text) => worker[w].text[1] = w

====
